---- MODULE Spec2Model ----
(***************************************************************************)
(* State-machine model of tempest/stress/driver.py: the stress driver      *)
(* stress_openstack(), its remote log helpers, the worker registry         *)
(* `processes`, terminate_all_processes() and the SIGCHLD handler.         *)
(***************************************************************************)
EXTENDS Integers, Sequences, FiniteSets, TLC

\* ---------------------------------------------------------------- bounds
MaxWorkers == 2      \* total number of worker processes a test suite expands to
MaxDuration == 2     \* largest `duration` argument (seconds)
MaxInterval == 2     \* largest configured log_check_interval (seconds)
MaxTime == 2         \* wall-clock horizon for the run-count mode
RunsCap == 1         \* iterations a worker performs when max_runs is None
MaxLines == 2        \* lines in the output of the node listing command
MaxFields == 5       \* raw blank-separated fields in one output line
MaxScanNodes == 4    \* nodes handed to _error_in_logs when it is checked alone
MaxOld == 1          \* workers an earlier call may have left in the registry

\* ------------------------------------------------------------- constants
NoMaxRuns == -1      \* max_runs=None

None == "None"       \* Python None (do_ssh failure / no result)
Empty == ""          \* empty command output
Err == "ERROR"       \* non-empty egrep output
Happy == ":-)"       \* state column of an active nova service

Results == {None, Empty, Err}
Tokens == {"", "n1", Happy}

Min(a, b) == IF a < b THEN a ELSE b

RECURSIVE SeqsUpTo(_, _)
SeqsUpTo(S, n) ==
  IF n = 0 THEN {<<>>}
  ELSE LET shorter == SeqsUpTo(S, n - 1)
       IN  shorter \cup {Append(s, x) : s \in {t \in shorter : Len(t) = n - 1}, x \in S}

RECURSIVE SumSeq(_)
SumSeq(s) == IF s = <<>> THEN 0 ELSE Head(s) + SumSeq(Tail(s))

\* raw lines of the listing output: fields separated by single blanks
Lines == SeqsUpTo(Tokens, MaxFields)

\* test suites: one entry per TestSpec, the entry is its 'threads' value
TestSuites ==
  {ts \in SeqsUpTo(1..MaxWorkers, MaxWorkers) : ts # <<>> /\ SumSeq(ts) <= MaxWorkers}

\* what do_ssh hands to _get_compute_nodes: <<>> stands for no output
Outputs == SeqsUpTo(Lines, MaxLines)

\* positions in the registry `processes`
Procs == 1..(MaxWorkers + MaxOld)

VARIABLES
  \* arguments and configuration
  tests, duration, max_runs, stop_on_error, logfiles, log_check_interval,
  \* locals of stress_openstack
  pc, exc, computes, linesLeft, rmIdx, tIdx, pIdx, end_time, had_errors,
  errors, sawFail, sum_runs, sum_fails, rIdx, reported, cleanups, status,
  \* wall clock
  now,
  \* module-level registry and the worker processes behind it
  processes, wstate, stat, termCount, joined,
  \* SIGCHLD handling and the stack of terminate_all_processes() activations
  handlerInstalled, sigPending, stack,
  \* some call of terminate_all_processes() has returned
  returned,
  \* some log scan ran with the channel working and a marker in a monitored log
  markerScanned,
  \* some do_ssh call of this run returned output (not None)
  channelUp,
  \* the remote log helpers called on their own: arguments and return values
  fnPc, listOut, listRet, scanRes, scanRet

cfgVars == <<tests, duration, max_runs, stop_on_error, logfiles, log_check_interval>>
setupVars == <<computes, linesLeft, rmIdx, tIdx, pIdx>>
loopVars == <<end_time, had_errors, errors, markerScanned, channelUp>>
\* sawFail: the `break` of the stop_on_error check was taken in this iteration
reportVars == <<sum_runs, sum_fails, rIdx, reported, cleanups, status>>
workerVars == <<wstate, stat, termCount, joined>>
sigVars == <<handlerInstalled, sigPending, stack>>
fnVars == <<fnPc, listOut, listRet, scanRes, scanRet>>

vars == <<tests, duration, max_runs, stop_on_error, logfiles, log_check_interval,
          pc, exc, computes, linesLeft, rmIdx, tIdx, pIdx, end_time, had_errors,
          errors, sawFail, sum_runs, sum_fails, rIdx, reported, cleanups, status,
          now, processes, wstate, stat, termCount, joined,
          handlerInstalled, sigPending, stack, returned, markerScanned, channelUp,
          fnPc, listOut, listRet, scanRes, scanRet>>

\* ------------------------------------------------------------------ Init
NoReturn == [raised |-> FALSE, nodes |-> <<>>]

\* no helper is being called on its own
FnIdle ==
  /\ fnPc = "idle"
  /\ listOut = <<>>
  /\ listRet = NoReturn
  /\ scanRes = <<>>
  /\ scanRet = None

\* the module is imported: empty registry, default SIGCHLD disposition
Loaded ==
  /\ exc = "none"
  /\ computes = <<>>
  /\ linesLeft = 0
  /\ rmIdx = 1
  /\ tIdx = 1
  /\ pIdx = 0
  /\ end_time = 0
  /\ had_errors = FALSE
  /\ errors = None
  /\ sawFail = FALSE
  /\ sum_runs = 0
  /\ sum_fails = 0
  /\ rIdx = 1
  /\ reported = <<>>
  /\ cleanups = 0
  /\ status = -1
  /\ now = 0
  /\ processes = <<>>
  /\ wstate = [w \in Procs |-> "unborn"]
  /\ stat = [w \in Procs |-> [runs |-> 0, fails |-> 0]]
  /\ termCount = [w \in Procs |-> 0]
  /\ joined = [w \in Procs |-> FALSE]
  /\ handlerInstalled = FALSE
  /\ sigPending = FALSE
  /\ stack = <<>>
  /\ returned = FALSE
  /\ markerScanned = FALSE
  /\ channelUp = FALSE

\* stress_openstack(tests, duration, max_runs, stop_on_error) is called
Init ==
  /\ tests \in TestSuites
  /\ duration \in 1..MaxDuration
  /\ max_runs \in {NoMaxRuns, RunsCap}
  /\ stop_on_error \in BOOLEAN
  /\ logfiles \in BOOLEAN
  /\ log_check_interval \in 1..MaxInterval
  /\ pc = "start"
  /\ Loaded
  /\ FnIdle

\* ------------------------------------------- signal delivery
\* statements of stress_openstack that can run with a handler installed: the
\* polling loop and what follows it, and, when an earlier call in this
\* process installed the handler, the set-up statements as well
HandlerPcs == {"start", "get_nodes", "parse_lines", "clear_logs", "spawn",
               "loop", "sleep", "poll", "terminating", "report"}

\* a SIGCHLD is pending: CPython runs the Python-level handler before the
\* next bytecode of the main thread
SignalDue == handlerInstalled /\ sigPending /\ pc \in HandlerPcs

\* --------------------------------------------------- _get_compute_nodes
\* line.split(): the non-empty blank-separated fields of a raw line
Split(line) == SelectSeq(line, LAMBDA f : f # "")

\* words[4] on a list of words (0-based index 4): raises IndexError when short
RaisesIndexError(words) == Len(words) > 0 /\ Len(words) < 5

IsActive(words) == Len(words) > 0 /\ words[5] = Happy

\* the for loop over output.split('\n'), from the lines still to read
RECURSIVE GetComputeNodesFrom(_, _)
GetComputeNodesFrom(lines, nodes) ==
  IF lines = <<>> THEN [raised |-> FALSE, nodes |-> nodes]
  ELSE LET words == Split(Head(lines)) IN
         IF RaisesIndexError(words) THEN [raised |-> TRUE, nodes |-> <<>>]
         ELSE GetComputeNodesFrom(Tail(lines),
                                  IF IsActive(words) THEN Append(nodes, words[2])
                                  ELSE nodes)

\* _get_compute_nodes on the output of do_ssh: `if not output: return nodes`
GetComputeNodes(output) ==
  IF output = <<>> THEN [raised |-> FALSE, nodes |-> <<>>]
  ELSE GetComputeNodesFrom(output, <<>>)

\* stress_openstack entry: read the configuration, branch on logfiles
Start ==
  /\ pc = "start"
  /\ stack = <<>>
  /\ ~SignalDue
  /\ pc' = IF logfiles THEN "get_nodes" ELSE "spawn"
  /\ UNCHANGED <<fnVars, returned, sawFail, cfgVars, exc, setupVars, loopVars,
                 reportVars, now, processes, workerVars, sigVars>>

\* do_ssh(cmd, controller): no output (channel unavailable or command failed)
ListNodesNoOutput ==
  /\ pc = "get_nodes"
  /\ stack = <<>>
  /\ ~SignalDue
  /\ pc' = "clear_logs"
  /\ UNCHANGED <<fnVars, returned, sawFail, cfgVars, exc, setupVars, loopVars,
                 reportVars, now, processes, workerVars, sigVars>>

\* do_ssh(cmd, controller) returned text: output.split('\n') has >= 1 line
ListNodesOutput ==
  /\ pc = "get_nodes"
  /\ stack = <<>>
  /\ ~SignalDue
  /\ \E n \in 1..MaxLines : linesLeft' = n
  /\ channelUp' = TRUE
  /\ pc' = "parse_lines"
  /\ UNCHANGED <<fnVars, returned, sawFail, cfgVars, exc, computes, rmIdx, tIdx, pIdx,
                 end_time, had_errors, errors, markerScanned, reportVars, now,
                 processes, workerVars, sigVars>>

\* one iteration of `for line in output.split('\n')`
ParseLine ==
  /\ pc = "parse_lines"
  /\ stack = <<>>
  /\ ~SignalDue
  /\ linesLeft > 0
  /\ \E line \in Lines :
       LET words == Split(line) IN
         IF RaisesIndexError(words)
         THEN /\ exc' = "IndexError"
              /\ pc' = "aborted"
              /\ UNCHANGED <<computes, linesLeft>>
         ELSE /\ computes' = IF IsActive(words) THEN Append(computes, words[2])
                             ELSE computes
              /\ linesLeft' = linesLeft - 1
              /\ UNCHANGED <<exc, pc>>
  /\ UNCHANGED <<fnVars, returned, sawFail, cfgVars, rmIdx, tIdx, pIdx, loopVars,
                 reportVars, now, processes, workerVars, sigVars>>

\* return nodes
ParseDone ==
  /\ pc = "parse_lines"
  /\ stack = <<>>
  /\ ~SignalDue
  /\ linesLeft = 0
  /\ pc' = "clear_logs"
  /\ UNCHANGED <<fnVars, returned, sawFail, cfgVars, exc, setupVars, loopVars,
                 reportVars, now, processes, workerVars, sigVars>>

\* mutant: the deletion loop is left before it has visited any node
ClearedAllAtOnce(i, n) == TRUE

\* `for node in computes` is exhausted: i is the next position, n = len(computes)
ClearedAll(i, n) == i > n

\* for node in computes: do_ssh("rm -f %s" % logfiles, node)
ClearLogs ==
  /\ pc = "clear_logs"
  /\ stack = <<>>
  /\ ~SignalDue
  /\ IF ~ClearedAll(rmIdx, Len(computes))
     THEN /\ rmIdx' = rmIdx + 1
          /\ UNCHANGED pc
     ELSE /\ pc' = "spawn"
          /\ UNCHANGED rmIdx
  /\ UNCHANGED <<fnVars, returned, sawFail, cfgVars, exc, computes, linesLeft, tIdx,
                 pIdx, loopVars, reportVars, now, processes, workerVars, sigVars>>

\* ------------------------------------------------------------ spawn loop
Threads(t) == tests[t]

\* mutant: the shared dictionary is published with a failure already counted
NewStatisticFailed == [runs |-> 0, fails |-> 1]

\* shared_statistic['runs'] = 0; shared_statistic['fails'] = 0
NewStatistic == [runs |-> 0, fails |-> 0]

\* one replica: setUp() succeeds, the record is appended and p.start() runs
SpawnWorker ==
  /\ pc = "spawn"
  /\ stack = <<>>
  /\ ~SignalDue
  /\ tIdx <= Len(tests)
  /\ LET w == Len(processes) + 1 IN
       /\ processes' = Append(processes, [p_number |-> pIdx, action |-> tIdx])
       /\ stat' = [stat EXCEPT ![w] = NewStatistic]
       /\ wstate' = [wstate EXCEPT ![w] = "alive"]
  /\ IF pIdx + 1 < Threads(tIdx)
     THEN /\ pIdx' = pIdx + 1
          /\ UNCHANGED tIdx
     ELSE /\ pIdx' = 0
          /\ tIdx' = tIdx + 1
  /\ UNCHANGED <<fnVars, returned, sawFail, cfgVars, pc, exc, computes, linesLeft,
                 rmIdx, loopVars, reportVars, now, termCount, joined, sigVars>>

\* one replica: test_obj(...) or test_run.setUp(...) raises; nothing catches it
SetUpRaises ==
  /\ pc = "spawn"
  /\ stack = <<>>
  /\ ~SignalDue
  /\ tIdx <= Len(tests)
  /\ exc' = "SetUpError"
  /\ pc' = "aborted"
  /\ UNCHANGED <<fnVars, returned, sawFail, cfgVars, setupVars, loopVars, reportVars,
                 now, processes, workerVars, sigVars>>

\* `for test in tests` is exhausted:
\* if stop_on_error: signal.signal(signal.SIGCHLD, sigchld_handler)
\* end_time = time.time() + duration; had_errors = False
InstallHandler ==
  /\ pc = "spawn"
  /\ stack = <<>>
  /\ ~SignalDue
  /\ tIdx > Len(tests)
  /\ handlerInstalled' = (handlerInstalled \/ stop_on_error)
  /\ end_time' = now + duration
  /\ had_errors' = FALSE
  /\ pc' = "loop"
  /\ UNCHANGED <<fnVars, returned, sawFail, cfgVars, exc, setupVars, errors,
                 markerScanned, channelUp, reportVars, now, processes, workerVars,
                 sigPending, stack>>

\* ------------------------------------------- terminate_all_processes
\* an activation of terminate_all_processes(): position i in `processes`,
\* statement st, who called it, and whether it was called after an earlier
\* call had returned
Frame(i, st, kind, after) == [i |-> i, st |-> st, kind |-> kind, after |-> after]

Top == stack[Len(stack)]

SetTop(f) == [stack EXCEPT ![Len(stack)] = f]

Pop == SubSeq(stack, 1, Len(stack) - 1)

IsAlive(w) == wstate[w] = "alive"

\* mutant: terminate() is never requested
IsAliveBranchNever(alive) == FALSE

\* mutant: terminate() is requested without asking is_alive()
IsAliveBranchAlways(alive) == TRUE

\* `if process['process'].is_alive():`
IsAliveBranch(alive) == alive

\* mutant: the join does not wait for the process
JoinReturnsAtOnce(ws) == TRUE

\* process['process'].join() returns once the process has exited
JoinReturns(ws) == ws = "dead"

FrameIsAlive ==
  /\ stack # <<>>
  /\ ~SignalDue
  /\ Top.st = "is_alive"
  /\ Top.i <= Len(processes)
  /\ stack' = SetTop(Frame(Top.i,
                           IF IsAliveBranch(IsAlive(Top.i)) THEN "terminate" ELSE "join",
                           Top.kind, Top.after))
  /\ UNCHANGED <<fnVars, returned, sawFail, cfgVars, pc, exc, setupVars, loopVars,
                 reportVars, now, processes, workerVars, handlerInstalled, sigPending>>

\* try: process['process'].terminate()  except Exception: pass
FrameTerminate ==
  /\ stack # <<>>
  /\ ~SignalDue
  /\ Top.st = "terminate"
  /\ termCount' = [termCount EXCEPT ![Top.i] = @ + 1]
  /\ stack' = SetTop(Frame(Top.i, "join", Top.kind, Top.after))
  /\ UNCHANGED <<fnVars, returned, sawFail, cfgVars, pc, exc, setupVars, loopVars,
                 reportVars, now, processes, wstate, stat, joined, handlerInstalled,
                 sigPending>>

FrameJoin ==
  /\ stack # <<>>
  /\ ~SignalDue
  /\ Top.st = "join"
  /\ JoinReturns(wstate[Top.i])
  /\ joined' = [joined EXCEPT ![Top.i] = TRUE]
  /\ stack' = SetTop(Frame(Top.i + 1, "is_alive", Top.kind, Top.after))
  /\ UNCHANGED <<fnVars, returned, sawFail, cfgVars, pc, exc, setupVars, loopVars,
                 reportVars, now, processes, wstate, stat, termCount, handlerInstalled,
                 sigPending>>

\* `for process in processes` is exhausted: the call returns to its caller
FrameReturn ==
  /\ stack # <<>>
  /\ ~SignalDue
  /\ Top.st = "is_alive"
  /\ Top.i > Len(processes)
  /\ stack' = Pop
  /\ returned' = TRUE
  /\ pc' = IF Top.kind = "main" THEN "report" ELSE pc
  /\ UNCHANGED <<fnVars, sawFail, cfgVars, exc, setupVars, loopVars, reportVars, now,
                 processes, workerVars, handlerInstalled, sigPending>>

\* the call terminate_all_processes() that follows the polling loop
MainCall == <<Frame(1, "is_alive", "main", returned)>>

\* ---------------------------------------------------------- polling loop
Registered == 1..Len(processes)

AllProcTerm == \A w \in Registered : ~IsAlive(w)

\* mutant: the duration is enforced whether or not max_runs is set
LoopShouldBreakAnyMode(mr, end, t, allTerm) == end - t <= 0 \/ allTerm

\* the two `break`s at the head of `while True`
LoopShouldBreak(mr, end, t, allTerm) ==
  IF mr = NoMaxRuns THEN end - t <= 0 ELSE allTerm

\* `remaining` as assigned at the head of the loop body
Remaining(mr, end, t, lci) == IF mr = NoMaxRuns THEN end - t ELSE lci

\* mutant: always a full log_check_interval
SleepTimeFull(rem, lci) == lci

\* argument of time.sleep
SleepTime(rem, lci) == Min(rem, lci)

LoopCheck ==
  /\ pc = "loop"
  /\ stack = <<>>
  /\ ~SignalDue
  /\ IF LoopShouldBreak(max_runs, end_time, now, AllProcTerm)
     THEN /\ pc' = "terminating"
          /\ stack' = MainCall
     ELSE /\ pc' = "sleep"
          /\ UNCHANGED stack
  /\ sawFail' = FALSE
  /\ UNCHANGED <<fnVars, returned, cfgVars, exc, setupVars, loopVars, reportVars, now,
                 processes, workerVars, handlerInstalled, sigPending>>

\* time.sleep(min(remaining, log_check_interval)) runs to completion
Sleep ==
  /\ pc = "sleep"
  /\ stack = <<>>
  /\ ~SignalDue
  /\ max_runs # NoMaxRuns => now < MaxTime
  /\ now' = now + SleepTime(Remaining(max_runs, end_time, now, log_check_interval),
                            log_check_interval)
  /\ pc' = "poll"
  /\ UNCHANGED <<fnVars, returned, sawFail, cfgVars, exc, setupVars, loopVars,
                 reportVars, processes, workerVars, sigVars>>

\* `if stop_on_error: for process in processes: if fails > 0: break`
FailsBreak == stop_on_error /\ \E w \in Registered : stat[w].fails > 0

\* where the statement after that for loop continues: the `break` leaves the
\* for loop only, so the log check follows whether or not it was taken
AfterFailsCheck(broke) == "check_logs"

\* ------------------------------------------------------- _error_in_logs
\* mutant: a failed remote call (None) counts as a finding
TruthyNone(x) == x # Empty

\* `if not errors` / `if errors` on what do_ssh returned
Truthy(x) == x \notin {None, Empty}

RECURSIVE ErrorInLogsFrom(_, _)
ErrorInLogsFrom(i, res) ==
  IF i > Len(res) THEN None
  ELSE IF ~Truthy(res[i]) THEN None
  ELSE IF res[i] # Empty THEN res[i]
  ELSE ErrorInLogsFrom(i + 1, res)

\* res[i] is what do_ssh(grep, nodes[i]) answers
ErrorInLogs(res) == ErrorInLogsFrom(1, res)

\* every do_ssh answered and some node's egrep output is non-empty
MarkerVisible(res) ==
  /\ \A i \in DOMAIN res : res[i] # None
  /\ \E i \in DOMAIN res : res[i] = Err

\* the scan made a do_ssh call that returned output: only the first node is
\* ever asked, since both branches of the loop body return
Answered(res) == res # <<>> /\ res[1] # None

\* the loop body after the sleep, without log monitoring:
\* the stop_on_error check, then `if not logfiles: continue`
PollNoLogs ==
  /\ pc = "poll"
  /\ stack = <<>>
  /\ ~SignalDue
  /\ AfterFailsCheck(FailsBreak) = "check_logs"
  /\ ~logfiles
  /\ sawFail' = FailsBreak
  /\ pc' = "loop"
  /\ UNCHANGED <<fnVars, returned, cfgVars, exc, setupVars, loopVars, reportVars, now,
                 processes, workerVars, sigVars>>

\* the loop body after the sleep, with log monitoring: the stop_on_error check,
\* errors = _error_in_logs(logfiles, computes); if errors: had_errors = True; break
PollLogs ==
  /\ pc = "poll"
  /\ stack = <<>>
  /\ ~SignalDue
  /\ AfterFailsCheck(FailsBreak) = "check_logs"
  /\ logfiles
  /\ \E res \in [1..Len(computes) -> Results] :
       /\ markerScanned' = (markerScanned \/ MarkerVisible(res))
       /\ channelUp' = (channelUp \/ Answered(res))
       /\ errors' = ErrorInLogs(res)
       /\ IF Truthy(ErrorInLogs(res))
          THEN /\ had_errors' = TRUE
               /\ pc' = "terminating"
               /\ stack' = MainCall
          ELSE /\ pc' = "loop"
               /\ UNCHANGED <<had_errors, stack>>
  /\ sawFail' = FailsBreak
  /\ UNCHANGED <<fnVars, returned, cfgVars, exc, setupVars, end_time, reportVars, now,
                 processes, workerVars, handlerInstalled, sigPending>>

\* ------------------------------------------------ worker processes
\* test_run.execute(shared_statistic): one iteration of the action's loop
WorkerRun(w) ==
  /\ IsAlive(w)
  /\ stat[w].runs < (IF max_runs = NoMaxRuns THEN RunsCap ELSE max_runs)
  /\ \E failed \in BOOLEAN :
       stat' = [stat EXCEPT ![w] = [runs |-> @.runs + 1,
                                    fails |-> @.fails + (IF failed THEN 1 ELSE 0)]]
  /\ UNCHANGED <<fnVars, returned, sawFail, cfgVars, pc, exc, setupVars, loopVars,
                 reportVars, now, processes, wstate, termCount, joined, sigVars>>

\* the kernel raises SIGCHLD in the parent when a child dies; without a
\* handler the signal is ignored
ChildDied == sigPending \/ handlerInstalled

\* execute() returns or the process exits by itself
WorkerExit(w) ==
  /\ IsAlive(w)
  /\ wstate' = [wstate EXCEPT ![w] = "dead"]
  /\ sigPending' = ChildDied
  /\ UNCHANGED <<fnVars, returned, sawFail, cfgVars, pc, exc, setupVars, loopVars,
                 reportVars, now, processes, stat, termCount, joined, handlerInstalled,
                 stack>>

\* the process dies of the SIGTERM sent by Process.terminate()
WorkerKilled(w) ==
  /\ IsAlive(w)
  /\ termCount[w] > 0
  /\ wstate' = [wstate EXCEPT ![w] = "dead"]
  /\ sigPending' = ChildDied
  /\ UNCHANGED <<fnVars, returned, sawFail, cfgVars, pc, exc, setupVars, loopVars,
                 reportVars, now, processes, stat, termCount, joined, handlerInstalled,
                 stack>>

\* ------------------------------------------------------ sigchld_handler
\* mutant: the handler returns without going through the registry
HandlerCallSkips == Frame(Len(processes) + 1, "is_alive", "handler", returned)

\* the activation of terminate_all_processes() made by sigchld_handler
HandlerCall == Frame(1, "is_alive", "handler", returned)

\* a pending SIGCHLD runs sigchld_handler between two bytecodes of the main
\* thread
Sigchld ==
  /\ handlerInstalled
  /\ sigPending
  /\ pc \in HandlerPcs
  /\ sigPending' = FALSE
  /\ stack' = Append(stack, HandlerCall)
  /\ UNCHANGED <<fnVars, returned, sawFail, cfgVars, pc, exc, setupVars, loopVars,
                 reportVars, now, processes, workerVars, handlerInstalled>>

\* a pending SIGCHLD interrupts time.sleep() after k seconds: the handler
\* runs and the sleep returns early
SigchldInSleep ==
  /\ handlerInstalled
  /\ sigPending
  /\ pc = "sleep"
  /\ stack = <<>>
  /\ sigPending' = FALSE
  /\ stack' = Append(stack, HandlerCall)
  /\ \E k \in 0..SleepTime(Remaining(max_runs, end_time, now, log_check_interval),
                           log_check_interval) :
       now' = now + k
  /\ pc' = "poll"
  /\ UNCHANGED <<fnVars, returned, sawFail, cfgVars, exc, setupVars, loopVars,
                 reportVars, processes, workerVars, handlerInstalled>>

\* --------------------------------------------------------------- report
\* mutant: the flag is overwritten by each worker's verdict
HadErrorsLast(had, fails) == fails > 0

\* `if process['statistic']['fails'] > 0: had_errors = True`
HadErrorsAfter(had, fails) == had \/ fails > 0

\* one iteration of `for process in processes` of the statistics loop
ReportStep ==
  /\ pc = "report"
  /\ stack = <<>>
  /\ ~SignalDue
  /\ rIdx <= Len(processes)
  /\ had_errors' = HadErrorsAfter(had_errors, stat[rIdx].fails)
  /\ sum_runs' = sum_runs + stat[rIdx].runs
  /\ sum_fails' = sum_fails + stat[rIdx].fails
  /\ reported' = Append(reported, [p_number |-> processes[rIdx].p_number,
                                   action |-> processes[rIdx].action,
                                   runs |-> stat[rIdx].runs,
                                   fails |-> stat[rIdx].fails])
  /\ rIdx' = rIdx + 1
  /\ UNCHANGED <<fnVars, returned, sawFail, cfgVars, pc, exc, setupVars, end_time,
                 errors, markerScanned, channelUp, cleanups, status, now, processes,
                 workerVars, sigVars>>

\* `if not had_errors: cleanup.cleanup(logger)`
ShouldCleanup(had) == ~had

\* `if had_errors: return 1 else: return 0`
ExitStatus(had) == IF had THEN 1 ELSE 0

\* the summary lines, the conditional cleanup and the return
Finish ==
  /\ pc = "report"
  /\ stack = <<>>
  /\ ~SignalDue
  /\ rIdx > Len(processes)
  /\ cleanups' = IF ShouldCleanup(had_errors) THEN cleanups + 1 ELSE cleanups
  /\ status' = ExitStatus(had_errors)
  /\ pc' = "done"
  /\ UNCHANGED <<fnVars, returned, sawFail, cfgVars, exc, setupVars, loopVars,
                 sum_runs, sum_fails, rIdx, reported, now, processes, workerVars,
                 sigVars>>

Next ==
  \/ Start
  \/ ListNodesNoOutput
  \/ ListNodesOutput
  \/ ParseLine
  \/ ParseDone
  \/ ClearLogs
  \/ SpawnWorker
  \/ SetUpRaises
  \/ InstallHandler
  \/ LoopCheck
  \/ Sleep
  \/ PollNoLogs
  \/ PollLogs
  \/ \E w \in Procs : WorkerRun(w)
  \/ \E w \in Procs : WorkerExit(w)
  \/ \E w \in Procs : WorkerKilled(w)
  \/ FrameIsAlive
  \/ FrameTerminate
  \/ FrameJoin
  \/ FrameReturn
  \/ Sigchld
  \/ SigchldInSleep
  \/ ReportStep
  \/ Finish

Spec == Init /\ [][Next]_vars

\* --------------------------------------- repeated calls in one process
\* stress_openstack is called again after it has returned, with the same
\* duration and max_runs: its locals and the clock start afresh, while the
\* module-level registry, the worker processes, their statistics and the
\* SIGCHLD disposition are what the earlier call left. termCount counts the
\* termination requests of the current call.
\* mutant: the report starts at the first worker of the current call
FirstReportedOwn == Len(processes) + 1

\* `for process in processes` of the report starts at the head of the registry
FirstReported == 1

CallAgain ==
  /\ pc = "done"
  /\ stack = <<>>
  /\ Len(processes) <= MaxOld
  /\ tests' \in TestSuites
  /\ stop_on_error' \in BOOLEAN
  /\ pc' = "start"
  /\ exc' = "none"
  /\ computes' = <<>>
  /\ linesLeft' = 0
  /\ rmIdx' = 1
  /\ tIdx' = 1
  /\ pIdx' = 0
  /\ end_time' = 0
  /\ had_errors' = FALSE
  /\ errors' = None
  /\ sawFail' = FALSE
  /\ sum_runs' = 0
  /\ sum_fails' = 0
  /\ rIdx' = FirstReported
  /\ reported' = <<>>
  /\ cleanups' = 0
  /\ status' = -1
  /\ now' = 0
  /\ returned' = FALSE
  /\ markerScanned' = FALSE
  /\ channelUp' = FALSE
  /\ termCount' = [w \in Procs |-> 0]
  /\ UNCHANGED <<fnVars, duration, max_runs, logfiles, log_check_interval, processes,
                 wstate, stat, joined, sigVars>>

\* the first call leaves at most MaxOld workers in the registry; the calls
\* are the shortest ones, in duration mode and of one polling tick
InitRuns ==
  /\ Init
  /\ SumSeq(tests) <= MaxOld
  /\ max_runs = NoMaxRuns
  /\ duration = 1
  /\ log_check_interval = 1

NextRuns ==
  \/ Next
  \/ CallAgain

SpecRuns == InitRuns /\ [][NextRuns]_vars

\* ------------------------------------------------ progress of a run
\* the steps of the parent process: stress_openstack and the handler, which
\* both run on its main thread
Driver ==
  \/ Start
  \/ ListNodesNoOutput
  \/ ListNodesOutput
  \/ ParseLine
  \/ ParseDone
  \/ ClearLogs
  \/ SpawnWorker
  \/ SetUpRaises
  \/ InstallHandler
  \/ LoopCheck
  \/ Sleep
  \/ PollNoLogs
  \/ PollLogs
  \/ FrameIsAlive
  \/ FrameTerminate
  \/ FrameJoin
  \/ FrameReturn
  \/ Sigchld
  \/ SigchldInSleep
  \/ ReportStep
  \/ Finish

\* runs of two polling ticks: the longest duration, polled every second
InitLive ==
  /\ Init
  /\ duration = MaxDuration
  /\ log_check_interval = 1

\* the parent process keeps running (remote calls and sleeps return), and a
\* worker that was sent SIGTERM exits; a worker left alone may run for ever
Progress ==
  /\ WF_vars(Driver)
  /\ \A w \in Procs : WF_vars(WorkerKilled(w))

SpecLive == InitLive /\ [][Next]_vars /\ Progress

\* ------------------------------------- the remote log helpers on their own
\* no run of stress_openstack is in progress
NoRun ==
  /\ tests = <<1>>
  /\ duration = 1
  /\ max_runs = NoMaxRuns
  /\ stop_on_error = FALSE
  /\ logfiles = TRUE
  /\ log_check_interval = 1
  /\ pc = "idle"
  /\ Loaded

InitNodes ==
  /\ NoRun
  /\ fnPc = "call"
  /\ listOut \in Outputs
  /\ listRet = NoReturn
  /\ scanRes = <<>>
  /\ scanRet = None

\* nodes = _get_compute_nodes(controller), do_ssh having answered listOut
CallGetComputeNodes ==
  /\ fnPc = "call"
  /\ listRet' = GetComputeNodes(listOut)
  /\ fnPc' = IF GetComputeNodes(listOut).raised THEN "raised" ELSE "returned"
  /\ UNCHANGED <<cfgVars, pc, exc, setupVars, loopVars, reportVars, now, processes,
                 workerVars, sigVars, returned, sawFail, listOut, scanRes, scanRet>>

NextNodes == CallGetComputeNodes

SpecNodes == InitNodes /\ [][NextNodes]_vars

InitScan ==
  /\ NoRun
  /\ fnPc = "call"
  /\ listOut = <<>>
  /\ listRet = NoReturn
  /\ scanRes \in SeqsUpTo(Results, MaxScanNodes)
  /\ scanRet = None

\* errors = _error_in_logs(logfiles, nodes), do_ssh answering scanRes[i] for nodes[i]
CallErrorInLogs ==
  /\ fnPc = "call"
  /\ scanRet' = ErrorInLogs(scanRes)
  /\ fnPc' = "returned"
  /\ UNCHANGED <<cfgVars, pc, exc, setupVars, loopVars, reportVars, now, processes,
                 workerVars, sigVars, returned, sawFail, listOut, listRet, scanRes>>

NextScan == CallErrorInLogs

SpecScan == InitScan /\ [][NextScan]_vars

TypeOK ==
  /\ pc \in {"idle", "start", "get_nodes", "parse_lines", "clear_logs", "spawn",
             "aborted", "done"} \cup HandlerPcs
  /\ exc \in {"none", "IndexError", "SetUpError"}
  /\ Len(processes) <= MaxWorkers + MaxOld
  /\ \A w \in Procs : wstate[w] \in {"unborn", "alive", "dead"}
  /\ now \in 0..(MaxTime + MaxInterval + MaxDuration)

\* ================================================================ claims
RunningPcs == {"loop", "sleep", "poll"}

StoppedPcs == {"terminating", "report", "done"}

ReportedPcs == {"report", "done"}

AllDeadAndJoined == \A w \in Registered : wstate[w] = "dead" /\ joined[w]

LogBreak == Truthy(errors)

RECURSIVE SumRuns(_)
SumRuns(rs) == IF rs = <<>> THEN 0 ELSE Head(rs).runs + SumRuns(Tail(rs))

RECURSIVE SumFails(_)
SumFails(rs) == IF rs = <<>> THEN 0 ELSE Head(rs).fails + SumFails(Tail(rs))

\* C1: with stop_on_error, once a poll has found some worker's fails > 0 the
\* driver does not start another sleep: it leaves the polling loop for
\* terminate_all_processes().
C1_StopOnErrorLeavesLoop ==
  [][(pc = "loop" /\ sawFail) => pc' # "sleep"]_vars

\* C2: in duration mode no sleep ends after end_time, and a loop exit that is
\* not caused by a log error happens no earlier than end_time and no later
\* than end_time + log_check_interval.
C2_DurationWindow ==
  max_runs = NoMaxRuns =>
    /\ pc \in RunningPcs => now <= end_time
    /\ (pc \in StoppedPcs /\ ~LogBreak) =>
         (now >= end_time /\ now <= end_time + log_check_interval)

\* the loop has run its full duration, in more than one sleep, with every
\* worker still running, and the polling path is about to terminate them
C2_Witness ==
  /\ max_runs = NoMaxRuns
  /\ duration > log_check_interval
  /\ pc = "terminating"
  /\ ~LogBreak
  /\ now = end_time
  /\ Len(processes) = MaxWorkers
  /\ \A w \in Registered : IsAlive(w) /\ termCount[w] = 0

\* C3: in run-count mode the head of the loop breaks exactly when every
\* registered worker is dead, the body breaks exactly when the log scan
\* found an error, and nothing else (in particular not the clock) ends the loop.
C3_RunCountIgnoresDuration ==
  [][max_runs # NoMaxRuns =>
       /\ (pc = "loop" /\ pc' # pc) => (pc' = "terminating" <=> AllProcTerm)
       /\ (pc = "poll" /\ pc' # pc) => (pc' = "terminating" <=> Truthy(errors'))
       /\ pc = "sleep" => pc' # "terminating"]_vars

\* in run-count mode the driver goes on sleeping after end_time has passed,
\* because a worker is still alive
C3_Witness ==
  /\ max_runs # NoMaxRuns
  /\ pc = "sleep"
  /\ now > 0
  /\ now >= end_time
  /\ \E w \in Registered : IsAlive(w)

\* C4: when a log scan ran with the channel working and an error marker in
\* the log of some monitored node, the run ends with had_errors, status 1
\* and no cleanup.
C4_LogMarkerFailsRun ==
  (pc = "done" /\ logfiles /\ markerScanned) =>
    (had_errors /\ status = 1 /\ cleanups = 0)

\* C5: on return had_errors is true exactly when a log scan found an error or
\* some registered worker's fails > 0, the status is 1 exactly when
\* had_errors, and cleanup ran once if had_errors is false and never otherwise.
C5_StatusAndCleanup ==
  pc = "done" =>
    /\ had_errors <=> (LogBreak \/ \E w \in Registered : stat[w].fails > 0)
    /\ status = (IF had_errors THEN 1 ELSE 0)
    /\ cleanups = (IF had_errors THEN 0 ELSE 1)

\* a run with two workers, one failed and one clean, and no log error, has
\* returned 1 without cleanup
C5_Witness ==
  /\ pc = "done"
  /\ ~LogBreak
  /\ \E w \in Registered : stat[w].fails > 0
  /\ \E w \in Registered : stat[w].fails = 0 /\ stat[w].runs > 0
  /\ status = 1
  /\ cleanups = 0

\* C6: once a call of terminate_all_processes() has returned every registered
\* worker is dead and joined, and a call made after that never reaches a
\* terminate() request, never waits in join(), and changes neither the
\* registry nor any worker or statistic.
C6_TerminateTwice ==
  /\ [](returned => AllDeadAndJoined)
  /\ []((stack # <<>> /\ Top.after) =>
          /\ Top.st # "terminate"
          /\ Top.st = "join" => JoinReturns(wstate[Top.i]))
  /\ [][(stack # <<>> /\ Top.after) =>
          UNCHANGED <<processes, wstate, stat, termCount, joined>>]_vars

\* a second call, made after a first one that terminated a worker had
\* returned, has gone through the whole registry
C6_Witness ==
  /\ stack # <<>>
  /\ Top.after
  /\ Top.i > Len(processes)
  /\ Len(processes) = MaxWorkers
  /\ \E w \in Registered : termCount[w] = 1

\* the result the scan is meant to give: the answer of the first node, in
\* order, whose answer is non-empty
RECURSIVE FirstNonEmpty(_)
FirstNonEmpty(res) ==
  IF res = <<>> THEN None
  ELSE IF Truthy(Head(res)) THEN Head(res)
  ELSE FirstNonEmpty(Tail(res))

\* C7: _error_in_logs returns the answer of the first node in order whose
\* answer is non-empty, and None only when no node has one.
C7_ScanReturnsFirstHit ==
  fnPc = "returned" => scanRet = FirstNonEmpty(scanRes)

\* C8: while the report is built and after it, every registered worker is
\* dead and joined, every reported line still equals the worker's counters,
\* and the totals are the sums of the reported lines.
C8_ReportAfterTerminate ==
  /\ pc \in ReportedPcs =>
       /\ AllDeadAndJoined
       /\ \A i \in 1..Len(reported) :
            reported[i].runs = stat[i].runs /\ reported[i].fails = stat[i].fails
       /\ sum_runs = SumRuns(reported)
       /\ sum_fails = SumFails(reported)
  /\ pc = "done" => Len(reported) = Len(processes)

\* a run has returned after reporting two workers that did some work and
\* were terminated by the driver
C8_Witness ==
  /\ pc = "done"
  /\ Len(reported) = MaxWorkers
  /\ sum_runs = MaxWorkers * RunsCap
  /\ sum_fails > 0
  /\ \A w \in Registered : termCount[w] > 0

\* C9: when stress_openstack is left by an exception, no worker process has
\* been started.
C9_AbortStartsNoWorker ==
  pc = "aborted" => \A w \in Procs : wstate[w] = "unborn"

\* the nodes the listing is meant to give: the second field of each line
\* that has a fifth field equal to the happy marker
RECURSIVE ActiveNodes(_)
ActiveNodes(output) ==
  IF output = <<>> THEN <<>>
  ELSE LET words == Split(Head(output))
           rest == ActiveNodes(Tail(output))
       IN  IF Len(words) >= 5 /\ words[5] = Happy THEN <<words[2]>> \o rest ELSE rest

\* C10: _get_compute_nodes never raises, whatever the listing command prints, and
\* returns exactly the second field of every line whose fifth field is ":-)".
C10_ListingNeverRaises ==
  /\ fnPc # "raised"
  /\ fnPc = "returned" => listRet = [raised |-> FALSE, nodes |-> ActiveNodes(listOut)]

\* C11: a failed remote call never marks the run as errored. During polling
\* had_errors is set only by a scan that returned actual log text; and in a
\* run with log monitoring where no remote call ever returned output, no scan
\* ends the loop, had_errors stays false while polling, a duration run stops
\* no earlier than end_time, and if no worker failed the run cleans up and
\* returns 0.
C11_ChannelFailureNotEscalated ==
  /\ (pc \in RunningPcs \cup {"terminating"} /\ had_errors) => errors = Err
  /\ (logfiles /\ ~channelUp) =>
       /\ errors = None
       /\ pc \in RunningPcs \cup {"terminating"} => ~had_errors
       /\ (max_runs = NoMaxRuns /\ pc \in StoppedPcs) => now >= end_time
       /\ (pc = "done" /\ \A w \in Registered : stat[w].fails = 0) =>
            (~had_errors /\ status = 0 /\ cleanups = 1)

\* a monitored run whose every remote call failed has polled for its whole
\* duration with working workers and returned 0 after cleanup
C11_Witness ==
  /\ pc = "done"
  /\ logfiles
  /\ ~channelUp
  /\ max_runs = NoMaxRuns
  /\ now = end_time
  /\ Len(processes) = MaxWorkers
  /\ \A w \in Registered : stat[w].runs > 0 /\ stat[w].fails = 0
  /\ status = 0
  /\ cleanups = 1

C13_InterruptForcesStopping ==
  [][(pc = "loop" /\ stop_on_error /\ returned) => pc' # "sleep"]_vars

\* C14: however calls of terminate_all_processes() by the handler and by the
\* polling path nest, no activation waits in join() for a worker that is
\* alive and was never asked to terminate, no exception is pending and the
\* registry does not change while an activation is open, and whenever an
\* activation returns every registered worker is dead and joined.
C14_InterleavedTerminate ==
  /\ [](\A k \in 1..Len(stack) :
          stack[k].st = "join" =>
            (wstate[stack[k].i] = "dead" \/ termCount[stack[k].i] > 0))
  /\ [](stack # <<>> => exc = "none")
  /\ [][stack # <<>> => processes' = processes]_vars
  /\ [][Len(stack') < Len(stack) => AllDeadAndJoined']_vars

\* the polling path's call was interrupted between is_alive() and
\* terminate(), and the handler's call was itself interrupted by the exit of
\* a worker it had terminated
C14_Witness ==
  /\ Len(stack) = 3
  /\ stack[1].kind = "main"
  /\ stack[1].st = "terminate"
  /\ stack[2].kind = "handler"
  /\ stack[2].st = "join"
  /\ termCount[stack[2].i] > 0
  /\ stack[3].kind = "handler"

SetupLogPcs == {"get_nodes", "parse_lines", "clear_logs"}

\* C16: with log monitoring, no worker process is alive while the nodes are
\* listed and their logs deleted; from the spawn loop on the deletion has
\* been issued to every listed node; a deletion is issued only in the
\* deletion loop, to the next node, and the node list changes only while the
\* listing is parsed, so nothing is deleted again during polling.
C16_LogsClearedBeforeWorkers ==
  /\ [](pc \in SetupLogPcs => \A w \in Procs : ~IsAlive(w))
  /\ []((logfiles /\ pc \in {"spawn"} \cup RunningPcs \cup StoppedPcs) =>
          rmIdx = Len(computes) + 1)
  /\ [][rmIdx' # rmIdx =>
          (pc = "clear_logs" /\ rmIdx <= Len(computes) /\ rmIdx' = rmIdx + 1)]_vars
  /\ [][computes' # computes => pc = "parse_lines"]_vars

\* a monitored run with two listed nodes is polling with a worker alive, the
\* deletion having been issued to both nodes
C16_Witness ==
  /\ logfiles
  /\ Len(computes) = 2
  /\ rmIdx = 3
  /\ pc = "poll"
  /\ now > 0
  /\ \E w \in Registered : IsAlive(w)

\* C17: with the parent process running and every worker exiting once it was
\* sent SIGTERM, a duration-mode run that has entered the polling loop
\* eventually returns, whatever its workers do; a run-count run leaves the
\* polling loop only when every registered worker has exited or the log
\* scan found an error.
C17_DurationRunReturns ==
  /\ (max_runs = NoMaxRuns /\ pc = "loop") ~> (pc = "done" /\ status \in {0, 1})
  /\ [][(max_runs # NoMaxRuns /\ pc \in RunningPcs /\ pc' \notin RunningPcs) =>
          (AllProcTerm \/ errors' = Err)]_vars

\* a duration run has returned although one worker never finished an
\* iteration and was reclaimed only by terminate(), while another had
\* exited by itself
C17_Witness ==
  /\ pc = "done"
  /\ max_runs = NoMaxRuns
  /\ status \in {0, 1}
  /\ \E w \in Registered : stat[w].runs = 0 /\ termCount[w] > 0
  /\ \E w \in Registered : termCount[w] = 0

\* the record the report prints for position i of the registry
ReportLine(i) ==
  [p_number |-> processes[i].p_number, action |-> processes[i].action,
   runs |-> stat[i].runs, fails |-> stat[i].fails]

RECURSIVE RunsUpTo(_)
RunsUpTo(n) == IF n = 0 THEN 0 ELSE stat[n].runs + RunsUpTo(n - 1)

RECURSIVE FailsUpTo(_)
FailsUpTo(n) == IF n = 0 THEN 0 ELSE stat[n].fails + FailsUpTo(n - 1)

\* C18: no step removes or replaces a record of the registry; and when a call
\* returns, its report has one line for every record ever appended, those of
\* earlier calls included, its totals add up all of them, and a failure
\* counted by any of them makes the call return 1.
C18_RegistryNeverShrinks ==
  /\ [][/\ Len(processes') >= Len(processes)
         /\ SubSeq(processes', 1, Len(processes)) = processes]_vars
  /\ [](pc = "done" =>
          /\ Len(reported) = Len(processes)
          /\ \A i \in 1..Len(processes) : reported[i] = ReportLine(i)
          /\ sum_runs = RunsUpTo(Len(processes))
          /\ sum_fails = FailsUpTo(Len(processes))
          /\ (\E w \in Registered : stat[w].fails > 0) =>
               (had_errors /\ status = 1 /\ cleanups = 0))

\* a later call whose own two workers ran without a failure has returned 1
\* without cleanup, because the worker of the earlier call had failed
C18_Witness ==
  /\ pc = "done"
  /\ Len(processes) = MaxOld + MaxWorkers
  /\ SumSeq(tests) = MaxWorkers
  /\ stat[1].fails > 0
  /\ \A w \in Registered : w > MaxOld => (stat[w].runs > 0 /\ stat[w].fails = 0)
  /\ ~LogBreak
  /\ Len(reported) = Len(processes)
  /\ status = 1
  /\ cleanups = 0

SetupPcs == {"start", "spawn"} \cup SetupLogPcs

\* C15: the registry changes only by an append made in the spawn loop, and
\* no call of terminate_all_processes() is open while the driver is setting
\* up with a worker of the spawn loop still to be appended and started.
C15_NoStoppingDuringSetup ==
  [][/\ processes' # processes =>
          (pc = "spawn" /\ Len(processes') = Len(processes) + 1
                        /\ SubSeq(processes', 1, Len(processes)) = processes)
     /\ (pc' \in SetupPcs /\ tIdx' <= Len(tests')) => stack' = <<>>]_vars

\* C19: with stop_on_error, the exit of any worker while the handler is
\* installed raises SIGCHLD, the handler runs before the driver's next
\* statement, and when its call returns every registered worker is dead and
\* joined; without stop_on_error no termination is requested before the
\* polling loop has been left.
C19_AnyExitStopsAll ==
  [][/\ (stop_on_error /\ handlerInstalled
           /\ \E w \in Procs : IsAlive(w) /\ wstate'[w] = "dead") => sigPending'
     /\ (stop_on_error /\ SignalDue /\ pc' # pc) => Len(stack') > Len(stack)
     /\ (stop_on_error /\ Len(stack') < Len(stack)) => AllDeadAndJoined'
     /\ (~stop_on_error /\ pc \in SetupPcs \cup RunningPcs) =>
          termCount' = termCount]_vars
====
